---------------------------- MODULE Spec2Model ----------------------------
(***************************************************************************)
(* Minecraft chat-component validation and rendering, as implemented in    *)
(* src/client/resources/web/js/message_parsing.mjs.                        *)
(*                                                                         *)
(* JavaScript values are tagged records:                                   *)
(*   [k |-> "undefined"], [k |-> "null"], [k |-> "bool", b |-> BOOLEAN],    *)
(*   [k |-> "num", n |-> Nat], [k |-> "str", s |-> <<chars>>],              *)
(*   [k |-> "arr", a |-> <<values>>], [k |-> "obj", o |-> [field |-> value]]*)
(* A JavaScript string is the sequence of its characters (one-character    *)
(* TLA+ strings); property names and path segments are TLA+ strings.       *)
(***************************************************************************)
EXTENDS Integers, Sequences, FiniteSets, TLC

VARIABLES
    component,  \* the value handed to assertIsComponent / formatComponent
    pc,         \* "received" | "valid" | "rejected" | "rendered", or
                \* "unchecked" | "rendered_raw" for a value never validated;
                \* "animating" while only the obfuscation loop is followed
    error,      \* outcome of assertIsComponent: NoError or a ComponentError
    rendered,   \* outcome of formatComponent: an output node, NoNode or Thrown
    animationFrameId,  \* initializeObfuscation: the stored handle (0: null)
    lastUpdate,        \* initializeObfuscation: timestamp of the last update
    frames,     \* the browser's pending animation frame callbacks, by handle
    handle,     \* the browser's last animation frame callback identifier
    timestamp,  \* the timestamp of the last frame
    elements,   \* the texts of the elements of class mc-obfuscated
    updateCalls,  \* how many times updateObfuscatedText has run
    cancelCalls   \* how many times the returned cancel function was called

chatVars == <<component, pc, error, rendered>>

obfuscationVars ==
    <<animationFrameId, lastUpdate, frames, handle, timestamp, elements,
      updateCalls, cancelCalls>>

vars == <<chatVars, obfuscationVars>>

----------------------------------------------------------------------------
(* Program constants *)

MAX_CHAT_LENGTH == 4096

MAX_CHAT_DEPTH == 8

VALID_COLORS ==
    << <<"b","l","a","c","k">>, <<"d","a","r","k","_","b","l","u","e">>, <<"d","a","r","k","_","g","r","e","e","n">>, <<"d","a","r","k","_","a","q","u","a">>, <<"d","a","r","k","_","r","e","d">>,
       <<"d","a","r","k","_","p","u","r","p","l","e">>, <<"g","o","l","d">>, <<"g","r","a","y">>, <<"d","a","r","k","_","g","r","a","y">>, <<"b","l","u","e">>, <<"g","r","e","e","n">>,
       <<"a","q","u","a">>, <<"r","e","d">>, <<"l","i","g","h","t","_","p","u","r","p","l","e">>, <<"y","e","l","l","o","w">>, <<"w","h","i","t","e">>, <<"r","e","s","e","t">> >>

VALID_HOVER_EVENTS == << <<"s","h","o","w","_","t","e","x","t">>, <<"s","h","o","w","_","i","t","e","m">>, <<"s","h","o","w","_","e","n","t","i","t","y">> >>

----------------------------------------------------------------------------
(* JavaScript values and the language operations the code applies to them *)

Undefined == [k |-> "undefined"]

Null == [k |-> "null"]

Bool(b) == [k |-> "bool", b |-> b]

Num(n) == [k |-> "num", n |-> n]

Str(s) == [k |-> "str", s |-> s]

Arr(a) == [k |-> "arr", a |-> a]

Obj(o) == [k |-> "obj", o |-> o]

\* The object literal {} (a record with no field).
EmptyFields == <<>>

\* typeof value
TypeOf(v) ==
    CASE v.k = "undefined" -> "undefined"
      [] v.k = "null"      -> "object"
      [] v.k = "bool"      -> "boolean"
      [] v.k = "num"       -> "number"
      [] v.k = "str"       -> "string"
      [] v.k = "arr"       -> "object"
      [] v.k = "obj"       -> "object"

\* ToBoolean(value): what `if (value)`, `!value` and `||` test.
Truthy(v) ==
    CASE v.k = "undefined" -> FALSE
      [] v.k = "null"      -> FALSE
      [] v.k = "bool"      -> v.b
      [] v.k = "num"       -> v.n # 0
      [] v.k = "str"       -> Len(v.s) > 0
      [] v.k = "arr"       -> TRUE
      [] v.k = "obj"       -> TRUE

\* 'name' in value, for a value of type object (own fields of a parsed JSON
\* object; an array has none of the names the code asks for).
In(name, v) == v.k = "obj" /\ name \in DOMAIN v.o

\* value.name for a value that is neither null nor undefined (reading a
\* property of those throws, which the callers model).
Get(v, name) == IF In(name, v) THEN v.o[name] ELSE Undefined

\* Array.isArray(value)
IsArray(v) == v.k = "arr"

\* a ?? b
Coalesce(a, b) == IF a.k \in {"undefined", "null"} THEN b ELSE a

DecimalDigits == <<"0", "1", "2", "3", "4", "5", "6", "7", "8", "9">>

\* index.toString() of a non-negative integer, as a path segment
RECURSIVE IndexToString(_)
IndexToString(n) ==
    IF n < 10 THEN DecimalDigits[n + 1]
    ELSE IndexToString(n \div 10) \o DecimalDigits[(n % 10) + 1]

----------------------------------------------------------------------------
(* ComponentError and assertIsComponent *)

NoError == [ok |-> TRUE, message |-> "", path |-> <<>>]

ComponentError(message, path) == [ok |-> FALSE, message |-> message, path |-> path]

\* The depth guard with the bound one too high: a path of length 9 passes.
DepthGuardTooLate(path) == Len(path) > MAX_CHAT_DEPTH + 1

\* The depth guard written with >= : a node at the bound itself is refused.
DepthGuardTooEarly(path) == Len(path) >= MAX_CHAT_DEPTH

\* The depth guard of assertIsComponent: path.length > MAX_CHAT_DEPTH.
DepthExceeded(path) == Len(path) > MAX_CHAT_DEPTH

\* Statements run in order, the first error thrown ending the walk: the
\* outcome of `first; rest`.
FirstError(first, rest) == IF first.ok THEN rest ELSE first

RECURSIVE assertIsComponent(_, _)
RECURSIVE assertEach(_, _, _, _)

\* array.forEach((component, index) => { if (typeof component === 'string')
\* return; assertIsComponent(component, [...path, field, index.toString()]) })
\* from entry i (1-based) on: the first error thrown, in order.
assertEach(array, path, field, i) ==
    IF i > Len(array.a) THEN NoError
    ELSE IF TypeOf(array.a[i]) = "string" THEN assertEach(array, path, field, i + 1)
    ELSE FirstError(assertIsComponent(array.a[i], path \o <<field, IndexToString(i - 1)>>),
                    assertEach(array, path, field, i + 1))

\* 'contents' in hoverEvent ? hoverEvent.contents : hoverEvent.value
ShowTextContents(hoverEvent) ==
    IF In("contents", hoverEvent) THEN Get(hoverEvent, "contents")
    ELSE Get(hoverEvent, "value")

assertIsShowTextHoverEvent(hoverEvent, path) ==
    IF ~In("contents", hoverEvent) /\ ~In("value", hoverEvent)
    THEN ComponentError("HoverEvent does not have a contents or value property", path)
    ELSE LET contents == ShowTextContents(hoverEvent)
         IN  IF TypeOf(contents) = "string" THEN NoError
             ELSE IF IsArray(contents) THEN assertEach(contents, path, "contents", 1)
             ELSE assertIsComponent(contents, path \o <<"contents">>)

assertIsShowItemHoverEvent(hoverEvent, path) ==
    IF ~In("contents", hoverEvent) /\ ~In("value", hoverEvent)
    THEN ComponentError("HoverEvent does not have a contents or value property", path)
    ELSE IF In("value", hoverEvent)
    THEN IF TypeOf(Get(hoverEvent, "value")) # "string"
         THEN ComponentError("HoverEvent.value is not a string", path \o <<"value">>)
         ELSE NoError
    ELSE LET contents == Get(hoverEvent, "contents")
         IN  IF TypeOf(contents) # "object" \/ contents.k = "null"
             THEN ComponentError("HoverEvent.contents is not an object", path \o <<"contents">>)
             ELSE IF ~In("id", contents)
             THEN ComponentError("HoverEvent.contents.id is not present", path \o <<"contents", "id">>)
             ELSE IF TypeOf(Get(contents, "id")) # "string"
             THEN ComponentError("HoverEvent.contents.id is not a string", path \o <<"contents", "id">>)
             ELSE IF In("count", contents) /\ TypeOf(Get(contents, "count")) # "number"
             THEN ComponentError("HoverEvent.contents.count is not a number", path \o <<"contents", "count">>)
             ELSE IF In("tag", contents) /\ TypeOf(Get(contents, "tag")) # "string"
             THEN ComponentError("HoverEvent.contents.tag is not a string", path \o <<"contents", "tag">>)
             ELSE NoError

assertIsShowEntityHoverEvent(hoverEvent, path) ==
    IF ~In("contents", hoverEvent) /\ ~In("value", hoverEvent)
    THEN ComponentError("HoverEvent does not have a contents or value property", path)
    ELSE IF In("value", hoverEvent)
    THEN IF TypeOf(Get(hoverEvent, "value")) # "string"
         THEN ComponentError("HoverEvent.value is not a string", path \o <<"value">>)
         ELSE NoError
    ELSE LET contents == Get(hoverEvent, "contents")
         IN  IF TypeOf(contents) # "object" \/ contents.k = "null"
             THEN ComponentError("HoverEvent.contents is not an object", path \o <<"contents">>)
             ELSE IF ~In("type", contents)
             THEN ComponentError("HoverEvent.contents.type is not present", path \o <<"contents", "type">>)
             ELSE IF TypeOf(Get(contents, "type")) # "string"
             THEN ComponentError("HoverEvent.contents.type is not a string", path \o <<"contents", "type">>)
             ELSE IF ~In("id", contents)
             THEN ComponentError("HoverEvent.contents.id is not present", path \o <<"contents", "id">>)
             ELSE IF In("name", contents) /\ TypeOf(Get(contents, "name")) # "string"
             THEN ComponentError("HoverEvent.contents.name is not a string", path \o <<"contents", "name">>)
             ELSE NoError

\* VALID_HOVER_EVENTS.includes(action)
IsValidHoverAction(action) ==
    \E i \in 1..Len(VALID_HOVER_EVENTS) : VALID_HOVER_EVENTS[i] = action.s

\* The message of the invalid-action error ends with the action's own text,
\* which no property here reads; the model keeps the fixed part.
assertIsHoverEvent(hoverEvent, path) ==
    IF ~Truthy(hoverEvent) \/ TypeOf(hoverEvent) # "object"
    THEN ComponentError("HoverEvent is not an object", path)
    ELSE IF ~In("action", hoverEvent)
    THEN ComponentError("HoverEvent.action is not present", path)
    ELSE IF TypeOf(Get(hoverEvent, "action")) # "string"
    THEN ComponentError("HoverEvent.action is not a string", path \o <<"action">>)
    ELSE IF ~IsValidHoverAction(Get(hoverEvent, "action"))
    THEN ComponentError("HoverEvent.action is not a valid hover event", path \o <<"action">>)
    ELSE CASE Get(hoverEvent, "action").s = <<"s","h","o","w","_","t","e","x","t">> -> assertIsShowTextHoverEvent(hoverEvent, path)
           [] Get(hoverEvent, "action").s = <<"s","h","o","w","_","i","t","e","m">> -> assertIsShowItemHoverEvent(hoverEvent, path)
           [] Get(hoverEvent, "action").s = <<"s","h","o","w","_","e","n","t","i","t","y">> -> assertIsShowEntityHoverEvent(hoverEvent, path)

\* The boolean style flags, in the order assertIsComponent checks them.
StyleFlags == <<"bold", "italic", "underlined", "strikethrough", "obfuscated">>

\* The first style flag that is present and not a boolean (0 when none).
FirstBadFlag(c) ==
    LET bad == {i \in 1..Len(StyleFlags) :
                  In(StyleFlags[i], c) /\ TypeOf(Get(c, StyleFlags[i])) # "boolean"}
    IN  IF bad = {} THEN 0 ELSE CHOOSE i \in bad : \A j \in bad : i <= j

assertIsComponent(c, path) ==
    IF DepthExceeded(path)
    THEN ComponentError("Maximum chat depth exceeded", path)
    ELSE IF ~Truthy(c) \/ TypeOf(c) # "object"
    THEN ComponentError("Component is not an object", path)
    ELSE IF ~In("text", c) /\ ~In("translate", c) /\ ~In("extra", c)
    THEN ComponentError("Component does not have a text, translate, or extra property", path)
    ELSE IF In("text", c) /\ TypeOf(Get(c, "text")) # "string"
    THEN ComponentError("Component.text is not a string", path \o <<"text">>)
    ELSE IF In("translate", c) /\ TypeOf(Get(c, "translate")) # "string"
    THEN ComponentError("Component.translate is not a string", path \o <<"translate">>)
    ELSE IF In("color", c) /\ TypeOf(Get(c, "color")) # "string"
    THEN ComponentError("Component.color is not a string", path \o <<"color">>)
    ELSE IF FirstBadFlag(c) # 0
    THEN ComponentError("Component." \o StyleFlags[FirstBadFlag(c)] \o " is not a boolean",
                        path \o <<StyleFlags[FirstBadFlag(c)]>>)
    ELSE FirstError(
           IF ~In("extra", c) THEN NoError
           ELSE IF ~IsArray(Get(c, "extra"))
           THEN ComponentError("Component.extra is not an array", path \o <<"extra">>)
           ELSE assertEach(Get(c, "extra"), path, "extra", 1),
         FirstError(
           IF ~In("with", c) THEN NoError
           ELSE IF ~IsArray(Get(c, "with"))
           THEN ComponentError("Component.with is not an array", path \o <<"with">>)
           ELSE assertEach(Get(c, "with"), path, "with", 1),
           IF In("hoverEvent", c)
           THEN assertIsHoverEvent(Get(c, "hoverEvent"), path \o <<"hoverEvent">>)
           ELSE NoError))

----------------------------------------------------------------------------
(* Strings *)

\* text.slice(from, to) and text.slice(from), with JavaScript's 0-based
\* indices (0 <= from <= to).
Slice(s, from, to) == SubSeq(s, from + 1, IF to > Len(s) THEN Len(s) ELSE to)

SliceFrom(s, from) == SubSeq(s, from + 1, Len(s))

UpperCase == <<"A","B","C","D","E","F","G","H","I","J","K","L","M",
               "N","O","P","Q","R","S","T","U","V","W","X","Y","Z">>

LowerCase == <<"a","b","c","d","e","f","g","h","i","j","k","l","m",
               "n","o","p","q","r","s","t","u","v","w","x","y","z">>

\* color.toLowerCase()
ToLowerCase(s) ==
    [i \in 1..Len(s) |->
        IF \E j \in 1..Len(UpperCase) : UpperCase[j] = s[i]
        THEN LowerCase[CHOOSE j \in 1..Len(UpperCase) : UpperCase[j] = s[i]]
        ELSE s[i]]

\* color.replace(/_/g, '-')
ReplaceUnderscores(s) == [i \in 1..Len(s) |-> IF s[i] = "_" THEN "-" ELSE s[i]]

\* [0-9]
IsDigit(c) == \E d \in 1..Len(DecimalDigits) : DecimalDigits[d] = c

\* [0-9a-fA-F]
IsHexDigit(c) == IsDigit(c) \/ c \in {"a","b","c","d","e","f","A","B","C","D","E","F"}

\* \s, over the characters of the model
IsWhiteSpace(c) == c \in {" ", "\t", "\n", "\r", "\f"}

\* The decimal text of a non-negative integer.
RECURSIVE NumberToString(_)
NumberToString(n) ==
    IF n < 10 THEN <<DecimalDigits[n + 1]>>
    ELSE NumberToString(n \div 10) \o <<DecimalDigits[(n % 10) + 1]>>

\* parseInt(digits) for a non-empty run of decimal digits
RECURSIVE ParseInt(_)
ParseInt(digits) ==
    IF digits = <<>> THEN 0
    ELSE 10 * ParseInt(SubSeq(digits, 1, Len(digits) - 1))
           + (CHOOSE d \in 0..9 : DecimalDigits[d + 1] = digits[Len(digits)])

\* An operation that may throw returns Return(value) or Throws.
Return(v) == [throws |-> FALSE, v |-> v]

Throws == [throws |-> TRUE]

\* ToString(value), as string concatenation, template literals, String() and
\* DOM string attributes apply it. An object parsed from JSON with a field
\* named toString has no callable toString (and Object.prototype.valueOf
\* returns the object), so its conversion throws a TypeError.
RECURSIVE ToStringJS(_)
RECURSIVE JoinJS(_, _)
JoinJS(a, i) ==
    IF i > Len(a) THEN Return(<<>>)
    ELSE LET one == IF a[i].k \in {"undefined", "null"} THEN Return(<<>>) ELSE ToStringJS(a[i])
             rest == JoinJS(a, i + 1)
         IN  IF one.throws \/ rest.throws THEN Throws
             ELSE Return(one.v \o (IF i < Len(a) THEN <<",">> ELSE <<>>) \o rest.v)

ToStringJS(v) ==
    CASE v.k = "undefined" -> Return(<<"u","n","d","e","f","i","n","e","d">>)
      [] v.k = "null"      -> Return(<<"n","u","l","l">>)
      [] v.k = "bool"      -> Return(IF v.b THEN <<"t","r","u","e">> ELSE <<"f","a","l","s","e">>)
      [] v.k = "num"       -> Return(NumberToString(v.n))
      [] v.k = "str"       -> Return(v.s)
      [] v.k = "arr"       -> JoinJS(v.a, 1)
      [] v.k = "obj"       -> IF "toString" \in DOMAIN v.o THEN Throws
                              ELSE Return(<<"[","o","b","j","e","c","t"," ","O","b","j","e","c","t","]">>)

\* array[index]
At(array, index) ==
    IF array.k = "arr" /\ index >= 0 /\ index < Len(array.a) THEN array.a[index + 1]
    ELSE Undefined

----------------------------------------------------------------------------
(* The translation table imported from translations.mjs: key -> template *)

translations ==
    (<<"c","h","a","t",".","t","y","p","e",".","t","e","x","t">> :> <<"<","%","s",">"," ","%","s">>)
    @@ (<<"m","u","l","t","i","p","l","a","y","e","r",".","p","l","a","y","e","r",".","j","o","i","n","e","d">> :> <<"%","s"," ","j","o","i","n","e","d"," ","t","h","e"," ","g","a","m","e">>)
    @@ (<<"p","a","i","r">> :> <<"%","2","$","s"," ","%","1","$","s">>)
    @@ (<<"t","h","i","r","d">> :> <<"%","1","$","s"," ","h","a","s"," ","%","3","$","s">>)
    @@ (<<"p","a","d","d","e","d">> :> <<"[","%","0","1","$","s","|","%","1","0","$","s","]">>)
    @@ (<<"p","r","i","c","e">> :> <<"c","o","s","t"," ","$","s"," ","%","s">>)
    @@ (<<"g","r","e","e","t","i","n","g">> :> <<"h","e","l","l","o">>)
    @@ (<<"s","i","t","e">> :> <<"v","i","s","i","t"," ","h","t","t","p",":","/","/","e","x","a","m","p","l","e",".","c","o","m"," ","%","s">>)

\* translations[key]
Lookup(key) == IF key \in DOMAIN translations THEN Str(translations[key]) ELSE Undefined

----------------------------------------------------------------------------
(* Output nodes *)

\* document.createTextNode(data)
TextNode(s) == [k |-> "text", s |-> s]

\* The <a> element linkifyText builds for a URL.
Anchor(url) ==
    [k |-> "a", href |-> url, rel |-> <<"n","o","o","p","e","n","e","r"," ","n","o","r","e","f","e","r","r","e","r">>, target |-> <<"_","b","l","a","n","k">>, s |-> url]

\* A <span>: its class list, style.color and title (Undefined when not set)
\* and its child nodes.
Span(classList, color, title, children) ==
    [k |-> "span", classList |-> classList, color |-> color, title |-> title,
     children |-> children]

\* formatComponent raising to its caller.
Thrown == [k |-> "throw"]

\* rendered before formatComponent has been called.
NoNode == [k |-> "none"]

\* node.textContent
RECURSIVE TextContent(_)
RECURSIVE TextContentOfAll(_, _)
TextContentOfAll(nodes, i) ==
    IF i > Len(nodes) THEN <<>> ELSE TextContent(nodes[i]) \o TextContentOfAll(nodes, i + 1)

TextContent(node) ==
    CASE node.k = "text" -> node.s
      [] node.k = "a"    -> node.s
      [] node.k = "span" -> TextContentOfAll(node.children, 1)

----------------------------------------------------------------------------
(* isValidColor *)

\* VALID_COLORS.includes(color)
IsPaletteName(color) == \E i \in 1..Len(VALID_COLORS) : VALID_COLORS[i] = color

\* /^#[0-9a-fA-F]{6}$/.test(color)
IsHexColor(color) ==
    /\ Len(color) = 7
    /\ color[1] = "#"
    /\ \A i \in 2..7 : IsHexDigit(color[i])

\* isValidColor(color) for a string color
isValidColor(color) ==
    IF Len(color) = 0 THEN FALSE
    ELSE LET lower == ToLowerCase(color)
         IN  IsPaletteName(lower) \/ IsHexColor(lower)

----------------------------------------------------------------------------
(* linkifyText *)

StartsWithAt(text, i, prefix) ==
    /\ i + Len(prefix) <= Len(text)
    /\ \A j \in 1..Len(prefix) : text[i + j] = prefix[j]

\* The URL pattern without its [^\s]+ : a bare scheme matches.
UrlAtSchemeOnly(text, i) ==
    StartsWithAt(text, i, <<"h","t","t","p",":","/","/">>) \/ StartsWithAt(text, i, <<"h","t","t","p","s",":","/","/">>)

\* Whether /https?:\/\/[^\s]+/ matches at 0-based index i of text.
UrlAt(text, i) ==
    \/ /\ StartsWithAt(text, i, <<"h","t","t","p",":","/","/">>)
       /\ i + 7 < Len(text) /\ ~IsWhiteSpace(text[i + 8])
    \/ /\ StartsWithAt(text, i, <<"h","t","t","p","s",":","/","/">>)
       /\ i + 8 < Len(text) /\ ~IsWhiteSpace(text[i + 9])

Minimum(S) == CHOOSE x \in S : \A y \in S : x <= y

\* regex.exec(text) from regex.lastIndex: [index, lastIndex] of the leftmost
\* match at or after lastIndex, the match running to the next whitespace or
\* to the end of text; index -1 when there is none (match === null).
ExecUrl(text, lastIndex) ==
    LET starts == {i \in lastIndex..(Len(text) - 1) : UrlAt(text, i)}
    IN  IF starts = {} THEN [index |-> -1, lastIndex |-> 0]
        ELSE LET index == Minimum(starts)
                 spaces == {j \in index..(Len(text) - 1) : IsWhiteSpace(text[j + 1])}
             IN  [index |-> index,
                  lastIndex |-> IF spaces = {} THEN Len(text) ELSE Minimum(spaces)]

RECURSIVE linkifyLoop(_, _, _)
linkifyLoop(text, lastIndex, result) ==
    LET match == ExecUrl(text, lastIndex)
    IN  IF match.index = -1
        THEN IF lastIndex < Len(text) THEN Append(result, TextNode(SliceFrom(text, lastIndex)))
             ELSE result
        ELSE LET before == IF lastIndex < match.index
                           THEN <<TextNode(Slice(text, lastIndex, match.index))>>
                           ELSE <<>>
                 url == Slice(text, match.index, match.lastIndex)
             IN  linkifyLoop(text, match.lastIndex, result \o before \o <<Anchor(url)>>)

linkifyText(text) == linkifyLoop(text, 0, <<>>)

----------------------------------------------------------------------------
(* formatTranslation, formatComponentPlainText, formatHoverEvent and         *)
(* formatComponent                                                          *)

RECURSIVE formatComponent(_)
RECURSIVE formatComponentPlainText(_)
RECURSIVE formatTranslation(_, _)
RECURSIVE numberedLoop(_, _, _)
RECURSIVE simpleLoop(_, _, _, _)
RECURSIVE formatEach(_, _)
RECURSIVE plainTextEach(_, _)

\* Two results that may throw, in order: their values joined (nodes pushed
\* or appended one after the other, strings concatenated), or Throws.
Joined(first, rest) ==
    IF first.throws THEN Throws
    ELSE IF rest.throws THEN Throws
    ELSE Return(first.v \o rest.v)

\* A rendered component as a list of one node; Throws when formatComponent
\* raised.
OneNode(node) == IF node.k = "throw" THEN Throws ELSE Return(<<node>>)

\* The node pushed for the argument a placeholder selects: the placeholder's
\* own text when the argument is falsy, a text node for a string, the
\* rendered component otherwise.
SubstitutedNode(value, placeholder) ==
    IF ~Truthy(value) THEN TextNode(placeholder)
    ELSE IF TypeOf(value) = "string" THEN TextNode(value.s)
    ELSE formatComponent(value)

\* The end (0-based, exclusive) of the run of decimal digits that starts at
\* 0-based index i of template.
DigitsEnd(template, i) ==
    LET stops == {j \in i..(Len(template) - 1) : ~IsDigit(template[j + 1])}
    IN  IF stops = {} THEN Len(template) ELSE Minimum(stops)

\* Whether /%(\d+)\$s/ matches at 0-based index i of template.
NumberedAt(template, i) ==
    /\ template[i + 1] = "%"
    /\ DigitsEnd(template, i + 1) > i + 1
    /\ StartsWithAt(template, DigitsEnd(template, i + 1), <<"$","s">>)

\* regex.exec(template) for /%(\d+)\$s/g from lastIndex (index -1: no match).
ExecNumbered(template, lastIndex) ==
    LET starts == {i \in lastIndex..(Len(template) - 1) : NumberedAt(template, i)}
    IN  IF starts = {} THEN [index |-> -1, lastIndex |-> 0, digits |-> <<>>]
        ELSE LET index == Minimum(starts)
                 stop == DigitsEnd(template, index + 1)
             IN  [index |-> index, lastIndex |-> stop + 2,
                  digits |-> Slice(template, index + 1, stop)]

\* The text before a placeholder, when there is any (lastIndex < match.index),
\* and the text after the last one (lastIndex < template.length).
TextBetween(template, lastIndex, index) ==
    IF lastIndex < index THEN <<TextNode(Slice(template, lastIndex, index))>> ELSE <<>>

\* numberedSubstitution from lastIndex on: the nodes pushed by the rest of
\* the while loop and by the statement after it.
numberedLoop(template, args, lastIndex) ==
    LET match == ExecNumbered(template, lastIndex)
    IN  IF match.index = -1
        THEN Return(TextBetween(template, lastIndex, Len(template)))
        ELSE Joined(Return(TextBetween(template, lastIndex, match.index)),
               Joined(OneNode(SubstitutedNode(
                                 At(args, ParseInt(match.digits) - 1),
                                 Slice(template, match.index, match.lastIndex))),
                      numberedLoop(template, args, match.lastIndex)))

numberedSubstitution(template, args) == numberedLoop(template, args, 0)

\* regex.exec(template) for /%s/g from lastIndex (index -1: no match).
ExecSimple(template, lastIndex) ==
    LET starts == {i \in lastIndex..(Len(template) - 1) : StartsWithAt(template, i, <<"%","s">>)}
    IN  IF starts = {} THEN [index |-> -1, lastIndex |-> 0]
        ELSE [index |-> Minimum(starts), lastIndex |-> Minimum(starts) + 2]

\* simpleSubstitution from lastIndex on; index is the index into args.
simpleLoop(template, args, lastIndex, index) ==
    LET match == ExecSimple(template, lastIndex)
    IN  IF match.index = -1
        THEN Return(TextBetween(template, lastIndex, Len(template)))
        ELSE Joined(Return(TextBetween(template, lastIndex, match.index)),
               Joined(OneNode(SubstitutedNode(At(args, index), <<"%","s">>)),
                      simpleLoop(template, args, match.lastIndex, index + 1)))

simpleSubstitution(template, args) == simpleLoop(template, args, 0, 0)

\* template.includes('$s')
IncludesDollarS(template) ==
    \E i \in 0..(Len(template) - 1) : StartsWithAt(template, i, <<"$","s">>)

\* entries.map(entry => typeof entry === 'string' ? document.createTextNode(entry)
\*                                                 : formatComponent(entry)),
\* from entry i (1-based) on; a component that raises ends the map.
formatEach(entries, i) ==
    IF i > Len(entries) THEN Return(<<>>)
    ELSE Joined(OneNode(IF TypeOf(entries[i]) = "string" THEN TextNode(entries[i].s)
                        ELSE formatComponent(entries[i])),
                formatEach(entries, i + 1))

\* try { ... } catch { return [document.createTextNode(key)] }
KeyOnFailure(nodes, key) == IF nodes.throws THEN Return(<<TextNode(key)>>) ELSE nodes

\* formatTranslation(key, args) for a string key and an array args: Return of
\* the list of nodes, or Throws when a component given for the "%s" key raises
\* (inside the try block every failure yields the key instead).
formatTranslation(key, args) ==
    IF Len(key) = 0 THEN Return(<<TextNode(key)>>)
    ELSE IF key = <<"%","s">>
    THEN IF Len(args.a) = 0 THEN Return(<<TextNode(key)>>) ELSE formatEach(args.a, 1)
    ELSE IF ~Truthy(Lookup(key)) THEN Return(<<TextNode(key)>>)
    ELSE KeyOnFailure(IF IncludesDollarS(Lookup(key).s)
                      THEN numberedSubstitution(Lookup(key).s, args)
                      ELSE simpleSubstitution(Lookup(key).s, args),
                      key)

\* entries.map(entry => typeof entry === 'string' ? entry
\*                        : formatComponentPlainText(entry)).join('')
plainTextEach(entries, i) ==
    IF i > Len(entries) THEN Return(<<>>)
    ELSE Joined(IF TypeOf(entries[i]) = "string" THEN Return(entries[i].s)
                ELSE formatComponentPlainText(entries[i]),
                plainTextEach(entries, i + 1))

\* nodes.map(node => node.textContent ?? '').join('')
JoinedTextContent(nodes) ==
    IF nodes.throws THEN Throws ELSE Return(TextContentOfAll(nodes.v, 1))

\* formatComponentPlainText(component): Return of the text, or Throws. The
\* fields read are a string or falsy (text may be any value: `result += text`
\* converts it); extra, when truthy, must be an array for map to exist.
formatComponentPlainText(c) ==
    IF c.k \in {"undefined", "null"} THEN Throws
    ELSE Joined(
           IF Truthy(Get(c, "text")) THEN ToStringJS(Get(c, "text"))
           ELSE IF Truthy(Get(c, "translate"))
           THEN JoinedTextContent(formatTranslation(Get(c, "translate").s,
                                                    Coalesce(Get(c, "with"), Arr(<<>>))))
           ELSE Return(<<>>),
           IF ~Truthy(Get(c, "extra")) THEN Return(<<>>)
           ELSE IF ~IsArray(Get(c, "extra")) THEN Throws
           ELSE plainTextEach(Get(c, "extra").a, 1))

\* A text that may have thrown, as the string value returned.
AsString(text) == IF text.throws THEN Throws ELSE Return(Str(text.v))

\* formatHoverEvent(hoverEvent) for an object hoverEvent: Return of the value
\* the switch returns (undefined when no case matches), or Throws.
formatHoverEvent(hoverEvent) ==
    LET action == Get(hoverEvent, "action")
    IN  IF action = Str(<<"s","h","o","w","_","t","e","x","t">>)
        THEN LET contents == Coalesce(Get(hoverEvent, "contents"), Get(hoverEvent, "value"))
             IN  IF TypeOf(contents) = "undefined" THEN Return(Str(<<>>))
                 ELSE IF TypeOf(contents) = "string" THEN Return(contents)
                 ELSE AsString(IF IsArray(contents) THEN plainTextEach(contents.a, 1)
                               ELSE formatComponentPlainText(contents))
        ELSE IF action = Str(<<"s","h","o","w","_","i","t","e","m">>)
        THEN LET contents == Get(hoverEvent, "contents")
             IN  IF ~Truthy(contents) THEN Return(Str(<<>>))
                 ELSE IF Truthy(Get(contents, "count"))
                 THEN AsString(Joined(ToStringJS(Get(contents, "count")),
                                      Joined(Return(<<"x"," ">>), ToStringJS(Get(contents, "id")))))
                 ELSE Return(Get(contents, "id"))
        ELSE IF action = Str(<<"s","h","o","w","_","e","n","t","i","t","y">>)
        THEN LET contents == Get(hoverEvent, "contents")
             IN  IF ~Truthy(contents) THEN Return(Str(<<>>))
                 ELSE IF Truthy(Get(contents, "name")) THEN Return(Get(contents, "name"))
                 ELSE Return(Str(<<"U","n","n","a","m","e","d"," ","E","n","t","i","t","y">>))
        ELSE Return(Undefined)

\* The class added for a named color: `mc-${color.replace(/_/g, '-')}`.
ColorClass(color) == <<"m","c","-">> \o ReplaceUnderscores(color)

\* The classes added for the truthy style flags, in the order of the code.
FlagClasses(c) ==
    LET class(flag, name) == IF Truthy(Get(c, flag)) THEN <<name>> ELSE <<>>
    IN  class("bold", <<"m","c","-","b","o","l","d">>) \o class("italic", <<"m","c","-","i","t","a","l","i","c">>)
          \o class("underlined", <<"m","c","-","u","n","d","e","r","l","i","n","e","d">>)
          \o class("strikethrough", <<"m","c","-","s","t","r","i","k","e","t","h","r","o","u","g","h">>)
          \o class("obfuscated", <<"m","c","-","o","b","f","u","s","c","a","t","e","d">>)

\* The color step of formatComponent: the class list and style.color it
\* leaves, or Throws (a truthy color that is not a string has no toLowerCase).
ApplyColor(c) ==
    LET color == Get(c, "color")
    IN  IF ~Truthy(color) THEN Return([classList |-> <<>>, color |-> <<>>])
        ELSE IF TypeOf(color) # "string" THEN Throws
        ELSE IF ~isValidColor(color.s) THEN Return([classList |-> <<>>, color |-> <<>>])
        ELSE IF color.s[1] = "#" THEN Return([classList |-> <<>>, color |-> color.s])
        ELSE Return([classList |-> <<ColorClass(color.s)>>, color |-> <<>>])

\* result.title = tooltip: the value converted to a string on assignment.
AssignedTitle(tooltip) ==
    IF tooltip.throws THEN Throws ELSE AsString(ToStringJS(tooltip.v))

\* The title step: result.title = formatHoverEvent(component.hoverEvent)
\* when hoverEvent is truthy (Undefined: the title is not set).
ApplyTitle(c) ==
    IF ~Truthy(Get(c, "hoverEvent")) THEN Return(Undefined)
    ELSE AssignedTitle(formatHoverEvent(Get(c, "hoverEvent")))

\* The node's own content: linkifyText(text) when text is truthy (a number or
\* boolean text has no match and no length: nothing is appended; an object
\* that cannot be converted to a string makes regex.exec throw), else
\* formatTranslation(translate, with ?? []) when translate is truthy.
OwnContent(c) ==
    LET text == Get(c, "text")
        translate == Get(c, "translate")
    IN  IF Truthy(text)
        THEN CASE text.k = "str" -> Return(linkifyText(text.s))
               [] text.k \in {"num", "bool"} -> Return(<<>>)
               [] text.k = "obj" /\ "toString" \in DOMAIN text.o -> Throws
        ELSE IF Truthy(translate)
        THEN formatTranslation(translate.s, Coalesce(Get(c, "with"), Arr(<<>>)))
        ELSE Return(<<>>)

\* The nodes appended for extra (an array has map; any other truthy value
\* has not).
ExtraContent(c) ==
    LET extra == Get(c, "extra")
    IN  IF ~Truthy(extra) THEN Return(<<>>)
        ELSE IF ~IsArray(extra) THEN Throws
        ELSE formatEach(extra.a, 1)

\* The length check written with >= : a text of exactly MAX_CHAT_LENGTH
\* characters is replaced by a single leaf as well.
TruncateAtBound(children) ==
    IF Len(TextContentOfAll(children, 1)) >= MAX_CHAT_LENGTH
    THEN <<TextNode(Slice(TextContentOfAll(children, 1), 0, MAX_CHAT_LENGTH))>>
    ELSE children

\* The length check that ends the try block: the children after it.
Truncate(children) ==
    IF Len(TextContentOfAll(children, 1)) > MAX_CHAT_LENGTH
    THEN <<TextNode(Slice(TextContentOfAll(children, 1), 0, MAX_CHAT_LENGTH))>>
    ELSE children

\* The span the try block returns, from the outcomes of its steps in order;
\* Throws when one of them threw.
TrySpan(colored, flagClasses, title, children) ==
    IF colored.throws THEN Throws
    ELSE IF title.throws THEN Throws
    ELSE IF children.throws THEN Throws
    ELSE Return(Span(colored.v.classList \o flagClasses, colored.v.color, title.v,
                     Truncate(children.v)))

\* The catch block: String(component.text ?? '').slice(0, MAX_CHAT_LENGTH) as
\* a text node; reading text of null or undefined, or converting it, may
\* raise out of formatComponent.
Fallback(c) ==
    IF c.k \in {"undefined", "null"} THEN Thrown
    ELSE LET text == ToStringJS(Coalesce(Get(c, "text"), Str(<<>>)))
         IN  IF text.throws THEN Thrown
             ELSE TextNode(Slice(text.v, 0, MAX_CHAT_LENGTH))

\* try { ... return result } catch { return fallback }
TryCatch(result, fallback) == IF result.throws THEN fallback ELSE result.v

\* formatComponent(component): the node returned, or Thrown. The component
\* is null, undefined, a number, a boolean or an object (a string or an
\* array would answer component.bold and component.with from its prototype).
formatComponent(c) ==
    TryCatch(IF c.k \in {"undefined", "null"} THEN Throws
             ELSE TrySpan(ApplyColor(c), FlagClasses(c), ApplyTitle(c),
                          Joined(OwnContent(c), ExtraContent(c))),
             Fallback(c))

----------------------------------------------------------------------------
(* Inputs: the component trees the operations are applied to *)

\* Longest chain of nested components in the generated trees.
MaxChain == 5

\* The ways one component holds another: an extra entry, a with entry (after
\* a string argument), a show_text tooltip given as a single component in
\* contents, and as an array entry in the legacy value field.
NestKinds == {"extra", "with", "contents", "value"}

ShowText(field, contents) ==
    Obj([action |-> Str(<<"s","h","o","w","_","t","e","x","t">>)] @@ (field :> contents))

Wrap(kind, child) ==
    CASE kind = "extra"    -> Obj([extra |-> Arr(<<child>>)])
      [] kind = "with"     -> Obj([translate |-> Str(<<"p","a","i","r">>),
                                   with |-> Arr(<<Str(<<"s">>), child>>)])
      [] kind = "contents" -> Obj([text |-> Str(<<"t">>),
                                   hoverEvent |-> ShowText("contents", child)])
      [] kind = "value"    -> Obj([text |-> Str(<<"t">>),
                                   hoverEvent |-> ShowText("value", Arr(<<child>>))])

RECURSIVE Nest(_, _)
Nest(chain, leaf) ==
    IF chain = <<>> THEN leaf ELSE Wrap(Head(chain), Nest(Tail(chain), leaf))

Chains(n) == UNION {[1..m -> NestKinds] : m \in 0..n}

ItemContents == Obj([id |-> Str(<<"m","i","n","e","c","r","a","f","t",":","d","i","a","m","o","n","d">>), count |-> Num(5)])

EntityContents == Obj([type |-> Str(<<"m","i","n","e","c","r","a","f","t",":","p","i","g">>), id |-> Num(7), name |-> Str(<<"B","o","b">>)])

TextA == Obj([text |-> Str(<<"a">>)])

Hover(action, fields) == Obj([action |-> Str(action)] @@ fields)

WithHover(h) == Obj([text |-> Str(<<"a">>), hoverEvent |-> h])

\* Values placed at the end of every chain.
DeepLeaves ==
    { TextA, Null, Str(<<"s">>), Obj(EmptyFields), Obj([text |-> Num(5)]),
      Obj([text |-> Str(<<"a">>), extra |-> Arr(<<Str(<<"b">>)>>)]),
      WithHover(Hover(<<"s","h","o","w","_","i","t","e","m">>, [contents |-> ItemContents])),
      WithHover(Num(1)) }

\* One wrongly typed field each.
BadFieldLeaves ==
    { Obj([text |-> Str(<<"a">>)] @@ (f :> v)) :
        f \in {"translate", "color", "bold", "italic", "underlined", "strikethrough",
               "obfuscated", "extra", "with"},
        v \in {Num(1), Null} }
    \cup { Obj([translate |-> Str(<<"p","a","i","r">>), text |-> Bool(TRUE)]),
           Obj([color |-> Str(<<"r","e","d">>)]), Num(3), Bool(FALSE), Arr(<<>>), Undefined,
           Obj([extra |-> Arr(<<Str(<<"b">>), Null>>)]),
           Obj([text |-> Str(<<"a">>), extra |-> Arr(<<TextA, Num(2)>>), with |-> Num(1)]) }

HoverLeaves ==
    { WithHover(h) : h \in
        { Null, Str(<<"s","h","o","w","_","t","e","x","t">>), Arr(<<>>), Obj(EmptyFields),
          Obj([action |-> Num(1)]),
          Hover(<<"r","u","n","_","c","o","m","m","a","n","d">>, [value |-> Str(<<"x">>)]),
          Hover(<<"s","h","o","w","_","t","e","x","t">>, EmptyFields),
          Hover(<<"s","h","o","w","_","t","e","x","t">>, [contents |-> Str(<<"t","i","p">>)]),
          Hover(<<"s","h","o","w","_","t","e","x","t">>, [value |-> Str(<<"t","i","p">>)]),
          Hover(<<"s","h","o","w","_","t","e","x","t">>, [value |-> TextA]),
          Hover(<<"s","h","o","w","_","t","e","x","t">>, [value |-> Obj(EmptyFields)]),
          Hover(<<"s","h","o","w","_","t","e","x","t">>, [value |-> Null]),
          Hover(<<"s","h","o","w","_","t","e","x","t">>, [contents |-> Obj([text |-> Num(1)])]),
          Hover(<<"s","h","o","w","_","t","e","x","t">>, [contents |-> Arr(<<Str(<<"t","i","p">>), TextA>>)]),
          Hover(<<"s","h","o","w","_","t","e","x","t">>, [contents |-> Arr(<<TextA, Obj([color |-> Str(<<"r","e","d">>)])>>)]),
          Hover(<<"s","h","o","w","_","t","e","x","t">>, [contents |-> TextA, value |-> Num(1)]),
          Hover(<<"s","h","o","w","_","i","t","e","m">>, EmptyFields),
          Hover(<<"s","h","o","w","_","i","t","e","m">>, [value |-> Str(<<"s","n","b","t">>)]),
          Hover(<<"s","h","o","w","_","i","t","e","m">>, [value |-> Num(1)]),
          Hover(<<"s","h","o","w","_","i","t","e","m">>, [contents |-> Str(<<"x">>)]),
          Hover(<<"s","h","o","w","_","i","t","e","m">>, [contents |-> Null]),
          Hover(<<"s","h","o","w","_","i","t","e","m">>, [contents |-> Obj(EmptyFields)]),
          Hover(<<"s","h","o","w","_","i","t","e","m">>, [contents |-> Obj([id |-> Num(1)])]),
          Hover(<<"s","h","o","w","_","i","t","e","m">>, [contents |-> Obj([id |-> Str(<<"m","i","n","e","c","r","a","f","t",":","s","t","o","n","e">>)])]),
          Hover(<<"s","h","o","w","_","i","t","e","m">>, [contents |-> Obj([id |-> Str(<<"m","i","n","e","c","r","a","f","t",":","s","t","o","n","e">>), count |-> Num(0)])]),
          Hover(<<"s","h","o","w","_","i","t","e","m">>, [contents |-> Obj([id |-> Str(<<"m","i","n","e","c","r","a","f","t",":","s","t","o","n","e">>), count |-> Str(<<"5">>)])]),
          Hover(<<"s","h","o","w","_","i","t","e","m">>, [contents |-> Obj([id |-> Str(<<"m","i","n","e","c","r","a","f","t",":","s","t","o","n","e">>), tag |-> Num(1)])]),
          Hover(<<"s","h","o","w","_","i","t","e","m">>, [contents |-> Obj([id |-> Str(<<"m","i","n","e","c","r","a","f","t",":","s","t","o","n","e">>), count |-> Num(12), tag |-> Str(<<"{","}">>)])]),
          Hover(<<"s","h","o","w","_","e","n","t","i","t","y">>, EmptyFields),
          Hover(<<"s","h","o","w","_","e","n","t","i","t","y">>, [value |-> Str(<<"s","n","b","t">>)]),
          Hover(<<"s","h","o","w","_","e","n","t","i","t","y">>, [value |-> Bool(TRUE)]),
          Hover(<<"s","h","o","w","_","e","n","t","i","t","y">>, [contents |-> Num(1)]),
          Hover(<<"s","h","o","w","_","e","n","t","i","t","y">>, [contents |-> Obj([id |-> Num(7)])]),
          Hover(<<"s","h","o","w","_","e","n","t","i","t","y">>, [contents |-> Obj([type |-> Num(1), id |-> Num(7)])]),
          Hover(<<"s","h","o","w","_","e","n","t","i","t","y">>, [contents |-> Obj([type |-> Str(<<"m","i","n","e","c","r","a","f","t",":","p","i","g">>)])]),
          Hover(<<"s","h","o","w","_","e","n","t","i","t","y">>, [contents |-> Obj([type |-> Str(<<"m","i","n","e","c","r","a","f","t",":","p","i","g">>), id |-> Null])]),
          Hover(<<"s","h","o","w","_","e","n","t","i","t","y">>, [contents |-> Obj([type |-> Str(<<"m","i","n","e","c","r","a","f","t",":","p","i","g">>), id |-> Num(7), name |-> Num(1)])]),
          Hover(<<"s","h","o","w","_","e","n","t","i","t","y">>, [contents |-> EntityContents]) } }

\* Trees that reach and pass the depth bound along every kind of nesting, and
\* every kind of schema violation within one level of the root.
ValidatorInputs ==
    { Nest(chain, leaf) : chain \in Chains(MaxChain), leaf \in DeepLeaves }
    \cup { Nest(chain, leaf) : chain \in Chains(1), leaf \in BadFieldLeaves \cup HoverLeaves }

----------------------------------------------------------------------------
(* Inputs: components that exercise rendering *)

\* The string of n characters c.
Repeat(c, n) == [i \in 1..n |-> c]

ColorInputs ==
    { Obj([text |-> Str(<<"x">>), color |-> Str(color)]) : color \in
        { <<"r","e","d">>, <<"R","E","D">>, <<"d","a","r","k","_","r","e","d">>, <<"D","a","r","k","_","R","e","d">>, <<"l","i","g","h","t","_","p","u","r","p","l","e">>, <<"r","e","s","e","t">>,
          <<"g","o","l","d">>, <<"#","F","F","0","0","0","0">>, <<"#","f","f","0","0","a","a">>, <<"#","F","F","F">>, <<"#","G","G","G","G","G","G">>, <<"#","F","F","0","0","0","0","1">>,
          <<"n","o","t","-","a","-","c","o","l","o","r">>, <<>>, <<"m","c","-","r","e","d">>, <<"b","o","l","d">>, <<"d","a","r","k","-","r","e","d">>, <<" ","r","e","d">> } }

FlagInputs ==
    { Obj([text |-> Str(<<"x">>), color |-> Str(<<"d","a","r","k","_","a","q","u","a">>)]
          @@ [f \in flags |-> Bool(f \in on)]) :
        flags \in SUBSET {"bold", "italic", "obfuscated"}, on \in SUBSET {"bold", "obfuscated"} }
    \cup { Obj([text |-> Str(<<"x">>), bold |-> Bool(TRUE), italic |-> Bool(TRUE),
                underlined |-> Bool(TRUE), strikethrough |-> Bool(TRUE),
                obfuscated |-> Bool(TRUE)]) }

Styled == Obj([text |-> Str(<<"S","t","e","v","e">>), color |-> Str(<<"g","o","l","d">>), bold |-> Bool(TRUE)])

Fields(name, values) == {EmptyFields} \cup {(name :> v) : v \in values}

\* Every combination of text, translate, with and extra drawn from these.
ContentInputs ==
    { Obj(text @@ translate @@ with @@ extra) :
        text \in Fields("text", { Str(<<>>), Str(<<"a">>),
                                  Str(<<"s","e","e"," ","h","t","t","p",":","/","/","e","x","a","m","p","l","e",".","c","o","m"," ","n","o","w">>) }),
        translate \in Fields("translate",
                             { Str(<<>>), Str(<<"p","a","i","r">>), Str(<<"c","h","a","t",".","t","y","p","e",".","t","e","x","t">>),
                               Str(<<"m","i","s","s","i","n","g",".","k","e","y">>), Str(<<"%","s">>), Str(<<"p","r","i","c","e">>),
                               Str(<<"t","h","i","r","d">>), Str(<<"p","a","d","d","e","d">>), Str(<<"g","r","e","e","t","i","n","g">>) }),
        with \in Fields("with", { Arr(<<>>), Arr(<<Str(<<"a">>), Str(<<"b">>)>>),
                                  Arr(<<Str(<<>>), Str(<<"b">>)>>),
                                  Arr(<<Styled, Str(<<"h","i"," ","h","t","t","p",":","/","/","x",".","o","r","g">>)>>),
                                  Arr(<<Str(<<"a">>)>>) }),
        extra \in Fields("extra", { Arr(<<Str(<<"!">>)>>),
                                    Arr(<<Styled, Str(<<" ","h","t","t","p","s",":","/","/","a",".","b","/","c","?","d","=","1"," ","e">>)>>) }) }

LinkInputs ==
    { Obj([text |-> Str(text)]) : text \in
        { <<"h","t","t","p",":","/","/","e","x","a","m","p","l","e",".","c","o","m">>, <<"h","t","t","p","s",":","/","/","e","x","a","m","p","l","e",".","c","o","m","/","a"," ","b">>, <<"h","t","t","p",":","/","/">>, <<"h","t","t","p","s",":","/","/"," ","x">>,
          <<"x","h","t","t","p",":","/","/","a",".","b"," ","h","t","t","p",":","/","/","c",".","d">>, <<"s","e","e"," ","h","t","t","p",":","/","/","a",".","b"," ","a","n","d"," ","h","t","t","p","s",":","/","/","c",".","d"," ","n","o","w">>, <<"h","t","t","p",":","/","/","a","\t","h","t","t","p","s",":","/","/","b","\n","f","t","p",":","/","/","c">>, <<"H","T","T","P",":","/","/","A",".","B">>,
          <<"h","t","t","p",":","/","/","h","t","t","p",":","/","/","x">>, <<" ">>, <<"a"," "," ","b">> } }

\* show_item and show_entity events that carry the legacy value and contents.
LegacyWithContents ==
    { Obj([text |-> Str(<<"a">>), extra |-> Arr(<<Str(<<"b">>)>>),
           hoverEvent |-> Hover(action, [value |-> Str(<<"s","n","b","t">>), contents |-> contents])]) :
        action \in {<<"s","h","o","w","_","i","t","e","m">>, <<"s","h","o","w","_","e","n","t","i","t","y">>},
        contents \in { ItemContents, EntityContents, Null, Num(0), Num(5), Str(<<"x">>),
                       Arr(<<>>), Obj(EmptyFields),
                       Obj([id |-> Num(5)]), Obj([name |-> Num(3)]),
                       Obj([id |-> Obj([toString |-> Num(0)])]),
                       Obj([id |-> Str(<<"x">>), count |-> Obj([toString |-> Null])]),
                       Obj([name |-> Obj([toString |-> Str(<<"x">>)])]),
                       Obj([id |-> Arr(<<Num(1), Null, Str(<<"x">>)>>), count |-> Bool(TRUE)]) } }

Lengths == {MAX_CHAT_LENGTH - 1, MAX_CHAT_LENGTH, MAX_CHAT_LENGTH + 1}

\* Components whose assembled text reaches and passes MAX_CHAT_LENGTH.
LongInputs ==
    { Obj([text |-> Str(Repeat("a", n))]) : n \in Lengths }
    \cup { Obj([text |-> Str(Repeat("a", n)),
                extra |-> Arr(<<Obj([text |-> Str(Repeat("b", m)), bold |-> Bool(TRUE)]),
                                Str(<<"z">>)>>)]) : n \in Lengths, m \in Lengths }
    \cup { Obj([translate |-> Str(<<"p","a","i","r">>),
                with |-> Arr(<<Str(Repeat("a", n)),
                               Obj([text |-> Str(Repeat("b", m))])>>)]) :
             n \in Lengths, m \in Lengths }
    \cup { Obj([text |-> Str(Repeat("a", n - 10) \o <<" ","h","t","t","p",":","/","/","e","x","a","m","p","l","e",".","c","o","m","/","p","a","t","h"," ","e","n","d">>),
                italic |-> Bool(TRUE)]) : n \in Lengths }
    \cup { Obj([text |-> Str(Repeat("a", n - 1)),
                extra |-> Arr(<<Obj([text |-> Str(<<"z">>), bold |-> Bool(TRUE)])>>)]) :
             n \in Lengths }
    \cup { Obj([text |-> Str(Repeat("a", n - 20) \o <<" ","h","t","t","p",":","/","/","e","x","a","m","p","l","e",".","c","o","m","/","p","a","t","h">>),
                color |-> Str(<<"g","o","l","d">>), bold |-> Bool(TRUE), extra |-> Arr(<<Styled>>),
                hoverEvent |-> Hover(<<"s","h","o","w","_","t","e","x","t">>, [contents |-> Str(<<"t","i","p">>)])]) :
             n \in Lengths }

\* Components whose show_text tooltip is itself a component or a list.
TooltipInputs ==
    { Obj([text |-> Str(<<"a">>), hoverEvent |-> Hover(<<"s","h","o","w","_","t","e","x","t">>, (field :> contents))]) :
        field \in {"contents", "value"},
        contents \in { Str(<<"t","i","p">>), Styled,
                       Obj([text |-> Str(<<>>), translate |-> Str(<<"g","r","e","e","t","i","n","g">>)]),
                       Obj([translate |-> Str(<<"p","a","i","r">>),
                            with |-> Arr(<<Str(<<"a">>), Styled>>)]),
                       Arr(<<Str(<<"x">>), Styled,
                             Obj([text |-> Str(<<"y">>), extra |-> Arr(<<Str(<<"z">>)>>)])>>) } }

\* The longest text of LinkTextInputs, in words.
MaxWords == 4

\* The pieces the texts of LinkTextInputs are made of.
LinkWords ==
    { <<"h","t","t","p",":","/","/">>, <<"h","t","t","p","s",":","/","/">>, <<"h","t","t","p",":","/">>, <<"s">>, <<"x">>, <<" ">>, <<"\t">> }

\* The words of a sequence, one after the other.
RECURSIVE JoinWords(_)
JoinWords(words) ==
    IF words = <<>> THEN <<>> ELSE Head(words) \o JoinWords(Tail(words))

\* A text component for every sequence of at most MaxWords words.
LinkTextInputs ==
    { Obj([text |-> Str(JoinWords(words))]) :
        words \in UNION { [1..n -> LinkWords] : n \in 0..MaxWords } }

RenderInputs ==
    ColorInputs \cup FlagInputs \cup ContentInputs \cup LinkInputs
      \cup LegacyWithContents \cup LongInputs \cup TooltipInputs \cup LinkTextInputs

\* Values handed to formatComponent without validation.
UncheckedInputs ==
    { Null, Undefined, Num(5), Bool(TRUE), Obj(EmptyFields), TextA,
      Obj([text |-> Str(<<"h","i">>), color |-> Num(5)]),
      Obj([text |-> Str(Repeat("a", MAX_CHAT_LENGTH + 1)), color |-> Bool(TRUE)]),
      Obj([color |-> Arr(<<>>)]),
      Obj([text |-> Num(5), color |-> Num(1)]),
      Obj([text |-> Num(5)]),
      Obj([text |-> Null, extra |-> Num(1)]),
      Obj([text |-> Str(<<"a">>), extra |-> Str(<<"b">>)]),
      Obj([text |-> Str(<<"a">>), extra |-> Arr(<<Null>>)]),
      Obj([text |-> Str(<<"a">>), extra |-> Arr(<<Num(1), Bool(FALSE)>>)]),
      Obj([text |-> Obj([toString |-> Num(1)])]),
      Obj([text |-> Obj([toString |-> Num(1)]), color |-> Num(5)]),
      Obj([text |-> Str(<<"a">>), hoverEvent |-> Num(1)]),
      Obj([text |-> Str(<<"a">>), hoverEvent |-> Hover(<<"s","h","o","w","_","t","e","x","t">>, [contents |-> Null, value |-> Null])]),
      Obj([translate |-> Str(<<"%","s">>), with |-> Arr(<<Null>>)]),
      Obj([translate |-> Str(<<"p","a","i","r">>), with |-> Arr(<<Null, Undefined>>)]),
      Obj([translate |-> Str(<<"c","h","a","t",".","t","y","p","e",".","t","e","x","t">>), with |-> Arr(<<Num(1), Obj([text |-> Str(<<"m">>), color |-> Num(1)])>>)]) }

----------------------------------------------------------------------------
(* The state machine: a value is received and validated, and rendered when  *)
(* valid; or it is handed to formatComponent (an export of the module)      *)
(* without validation                                                       *)

Inputs == ValidatorInputs \cup RenderInputs

\* Before initializeObfuscation is called: nothing is scheduled.
NotAnimating ==
    /\ animationFrameId = 0
    /\ lastUpdate = 0
    /\ frames = {}
    /\ handle = 0
    /\ timestamp = 0
    /\ elements = <<>>
    /\ updateCalls = 0
    /\ cancelCalls = 0

Init ==
    /\ NotAnimating
    /\ \/ component \in Inputs /\ pc = "received"
       \/ component \in UncheckedInputs /\ pc = "unchecked"
    /\ error = NoError
    /\ rendered = NoNode

\* assertIsComponent(component), called at the root with the empty path.
Validate ==
    /\ pc = "received"
    /\ error' = assertIsComponent(component, <<>>)
    /\ pc' = IF error'.ok THEN "valid" ELSE "rejected"
    /\ UNCHANGED <<component, rendered, obfuscationVars>>

\* formatComponent(component) of a component that assertIsComponent accepted.
Format ==
    /\ pc = "valid"
    /\ rendered' = formatComponent(component)
    /\ pc' = "rendered"
    /\ UNCHANGED <<component, error, obfuscationVars>>

\* formatComponent(value) of a value that was not validated.
FormatUnvalidated ==
    /\ pc = "unchecked"
    /\ rendered' = formatComponent(component)
    /\ pc' = "rendered_raw"
    /\ UNCHANGED <<component, error, obfuscationVars>>

Next == Validate \/ Format \/ FormatUnvalidated

Spec == Init /\ [][Next]_vars


----------------------------------------------------------------------------
(* initializeObfuscation: the animation loop and its cancel function *)

\* The browser issues at most this many animation frame handles.
MaxFrames == 5

\* The cancel function is called at most this many times.
MaxCancels == 3

updateInterval == 50

maxElements == 100

\* Characters of chars (whitespace removed): a few of them.
chars == <<"A", "z", "9">>

\* Time from one frame to the next, in milliseconds.
FrameSteps == {16, 34, 50}

\* The texts of the mc-obfuscated elements when the loop starts.
ElementTexts == { <<>>, << <<"h", "i">> >>, << <<>>, <<"x">> >> }

\* result after the inner loop: any text of the given length over chars
\* (Math.random picks each character).
Scrambled(length) == [1..length -> {chars[i] : i \in 1..Len(chars)}]

\* The handle stored by `animationFrameId = requestAnimationFrame(...)`
\* left at its previous value.
StoredHandleStale(previous, requested) == previous

\* The handle stored by `animationFrameId = requestAnimationFrame(...)`.
StoredHandle(previous, requested) == requested

\* The pending callbacks after cancelAnimationFrame(id) guarded by
\* `if (animationFrameId)`.
AfterCancel(pending, id) == IF id # 0 THEN pending \ {id} ELSE pending

\* The state when initializeObfuscation() has returned: the first frame is
\* requested and its handle stored. The browser's identifiers start above 0.
InitObfuscation ==
    /\ component = Undefined /\ pc = "animating" /\ error = NoError /\ rendered = NoNode
    /\ handle \in 1..2
    /\ animationFrameId = StoredHandle(0, handle)
    /\ frames = {handle}
    /\ lastUpdate = 0
    /\ timestamp = 0
    /\ elements \in ElementTexts
    /\ updateCalls = 0
    /\ cancelCalls = 0

\* The browser runs a pending frame callback: updateObfuscatedText(timestamp).
\* The callback is taken off the pending list, the elements are rewritten
\* when updateInterval has passed, and the next frame is requested.
Frame ==
    /\ pc = "animating"
    /\ handle < MaxFrames
    /\ \E ran \in frames, step \in FrameSteps :
         /\ timestamp' = timestamp + step
         /\ IF timestamp' - lastUpdate >= updateInterval
            THEN /\ \E texts \in [1..Len(elements) -> UNION {Scrambled(n) : n \in 0..2}] :
                      /\ \A i \in 1..Len(elements) :
                            IF i <= maxElements
                            THEN texts[i] \in Scrambled(Len(elements[i]))
                            ELSE texts[i] = elements[i]
                      /\ elements' = texts
                 /\ lastUpdate' = timestamp'
            ELSE UNCHANGED <<elements, lastUpdate>>
         /\ handle' = handle + 1
         /\ animationFrameId' = StoredHandle(animationFrameId, handle')
         /\ frames' = (frames \ {ran}) \cup {handle'}
    /\ updateCalls' = updateCalls + 1
    /\ UNCHANGED <<chatVars, cancelCalls>>

\* The function initializeObfuscation returned is called.
Cancel ==
    /\ pc = "animating"
    /\ cancelCalls < MaxCancels
    /\ frames' = AfterCancel(frames, animationFrameId)
    /\ cancelCalls' = cancelCalls + 1
    /\ UNCHANGED <<chatVars, animationFrameId, lastUpdate, handle, timestamp, elements,
                   updateCalls>>

NextObfuscation == Frame \/ Cancel

SpecObfuscation == InitObfuscation /\ [][NextObfuscation]_vars

----------------------------------------------------------------------------
(* The field-type schema of the Component and HoverEvent typedefs *)

RECURSIVE IsComponent(_)

IsString(v) == v.k = "str"

\* (string | Component)[]
IsStringOrComponentArray(v) ==
    /\ v.k = "arr"
    /\ \A i \in 1..Len(v.a) : IsString(v.a[i]) \/ IsComponent(v.a[i])

\* string | Component | (string | Component)[]
IsTooltipText(v) == IsString(v) \/ IsComponent(v) \/ IsStringOrComponentArray(v)

\* { id: string, count?: number, tag?: string }
IsItemContents(v) ==
    /\ v.k = "obj"
    /\ In("id", v) /\ IsString(Get(v, "id"))
    /\ In("count", v) => Get(v, "count").k = "num"
    /\ In("tag", v) => IsString(Get(v, "tag"))

\* { type: string, id: unknown, name?: string }
IsEntityContents(v) ==
    /\ v.k = "obj"
    /\ In("type", v) /\ IsString(Get(v, "type"))
    /\ In("id", v)
    /\ In("name", v) => IsString(Get(v, "name"))

IsHoverEvent(h) ==
    /\ h.k = "obj"
    /\ In("action", h) /\ IsString(Get(h, "action"))
    /\ In("contents", h) \/ In("value", h)
    /\ \/ /\ Get(h, "action").s = <<"s","h","o","w","_","t","e","x","t">>
          /\ In("contents", h) => IsTooltipText(Get(h, "contents"))
          /\ In("value", h) => IsTooltipText(Get(h, "value"))
       \/ /\ Get(h, "action").s = <<"s","h","o","w","_","i","t","e","m">>
          /\ In("contents", h) => IsItemContents(Get(h, "contents"))
          /\ In("value", h) => IsString(Get(h, "value"))
       \/ /\ Get(h, "action").s = <<"s","h","o","w","_","e","n","t","i","t","y">>
          /\ In("contents", h) => IsEntityContents(Get(h, "contents"))
          /\ In("value", h) => IsString(Get(h, "value"))

IsComponent(v) ==
    /\ v.k = "obj"
    /\ In("text", v) \/ In("translate", v) \/ In("extra", v)
    /\ In("text", v) => IsString(Get(v, "text"))
    /\ In("translate", v) => IsString(Get(v, "translate"))
    /\ In("with", v) => IsStringOrComponentArray(Get(v, "with"))
    /\ In("extra", v) => IsStringOrComponentArray(Get(v, "extra"))
    /\ In("color", v) => IsString(Get(v, "color"))
    /\ \A i \in 1..Len(StyleFlags) :
          In(StyleFlags[i], v) => Get(v, StyleFlags[i]).k = "bool"
    /\ In("hoverEvent", v) => IsHoverEvent(Get(v, "hoverEvent"))

----------------------------------------------------------------------------
(* Paths into the input *)

\* Whether following path from value v, field by field and index by index,
\* arrives at a value.
RECURSIVE Designates(_, _)
Designates(v, path) ==
    IF path = <<>> THEN TRUE
    ELSE CASE v.k = "obj" -> /\ Head(path) \in DOMAIN v.o
                             /\ Designates(v.o[Head(path)], Tail(path))
           [] v.k = "arr" -> \E i \in 1..Len(v.a) :
                                /\ IndexToString(i - 1) = Head(path)
                                /\ Designates(v.a[i], Tail(path))
           [] OTHER -> FALSE

IsPrefix(p, q) == Len(p) <= Len(q) /\ SubSeq(q, 1, Len(p)) = p

RECURSIVE ComponentNodes(_, _)
RECURSIVE EntryNodes(_, _)

\* The paths of the object entries of array v (itself at path), and of the
\* component nodes below them.
EntryNodes(v, path) ==
    UNION { ComponentNodes(v.a[i], path \o <<IndexToString(i - 1)>>) :
              i \in {j \in 1..Len(v.a) : v.a[j].k = "obj"} }

\* The paths of the component nodes of the tree rooted at object v (at path):
\* v itself, and every object entry of extra, of with and of the show_text
\* tooltip contents (under contents or under the legacy value), recursively.
ComponentNodes(v, path) ==
    LET under(owner, field, at) ==
            LET w == Get(owner, field)
            IN  IF w.k = "arr" THEN EntryNodes(w, at \o <<field>>) ELSE {}
        single(owner, field, at) ==
            LET w == Get(owner, field)
            IN  IF w.k = "obj" THEN ComponentNodes(w, at \o <<field>>) ELSE {}
        h == Get(v, "hoverEvent")
        tooltip == IF h.k = "obj" /\ Get(h, "action") = Str(<<"s","h","o","w","_","t","e","x","t">>)
                   THEN UNION { under(h, f, path \o <<"hoverEvent">>)
                                  \cup single(h, f, path \o <<"hoverEvent">>) :
                                f \in {"contents", "value"} }
                   ELSE {}
    IN  {path} \cup under(v, "extra", path) \cup under(v, "with", path) \cup tooltip

\* The paths, as assertIsComponent names them, of the values assertIsComponent
\* is applied to: the root, every non-string entry of extra, of with and of a
\* show_text contents array, and a show_text contents that is neither a string
\* nor an array; recursively below those that are objects.
RECURSIVE CheckedValues(_, _)
CheckedValues(v, path) ==
    LET entries(array, at) ==
            UNION { CheckedValues(array.a[i], at \o <<IndexToString(i - 1)>>) :
                      i \in {j \in 1..Len(array.a) : array.a[j].k # "str"} }
        under(field) ==
            IF Get(v, field).k = "arr" THEN entries(Get(v, field), path \o <<field>>) ELSE {}
        h == Get(v, "hoverEvent")
        at == path \o <<"hoverEvent", "contents">>
        tooltip == IF /\ h.k = "obj"
                      /\ Get(h, "action") = Str(<<"s","h","o","w","_","t","e","x","t">>)
                      /\ In("contents", h) \/ In("value", h)
                   THEN LET c == ShowTextContents(h)
                        IN  CASE c.k = "str" -> {}
                              [] c.k = "arr" -> entries(c, at)
                              [] OTHER -> CheckedValues(c, at)
                   ELSE {}
    IN  {path} \cup under("extra") \cup under("with") \cup tooltip

\* The paths of the values of the kinds C4 lists below the component v (at
\* path): every entry of extra and with, a hoverEvent, its contents or value,
\* and the entries of a tooltip array; recursively below component objects.
RECURSIVE NestedValues(_, _)
NestedValues(v, path) ==
    LET entries(array, at) ==
            UNION { {at \o <<IndexToString(i - 1)>>}
                      \cup (IF array.a[i].k = "obj"
                            THEN NestedValues(array.a[i], at \o <<IndexToString(i - 1)>>)
                            ELSE {}) :
                    i \in 1..Len(array.a) }
        under(owner, field, at) ==
            IF Get(owner, field).k = "arr" THEN entries(Get(owner, field), at \o <<field>>) ELSE {}
        h == Get(v, "hoverEvent")
        hp == path \o <<"hoverEvent">>
        payload(f) ==
            IF ~In(f, h) THEN {}
            ELSE {hp \o <<f>>}
                   \cup under(h, f, hp)
                   \cup (IF Get(h, f).k = "obj" /\ Get(h, "action") = Str(<<"s","h","o","w","_","t","e","x","t">>)
                         THEN NestedValues(Get(h, f), hp \o <<f>>) ELSE {})
    IN  under(v, "extra", path) \cup under(v, "with", path)
          \cup (IF In("hoverEvent", v) THEN {hp} \cup payload("contents") \cup payload("value")
                ELSE {})

DepthMessage == "Maximum chat depth exceeded"

Validated == pc \in {"valid", "rejected"}

----------------------------------------------------------------------------
(* C2: a tree whose component nodes all lie at paths of length at most 8     *)
(* and that satisfies the field-type schema is accepted by assertIsComponent *)
C2_SchemaValidAccepted ==
    ( /\ Validated
      /\ IsComponent(component)
      /\ \A p \in ComponentNodes(component, <<>>) : Len(p) <= MAX_CHAT_DEPTH )
    => error.ok

\* An accepted schema-valid tree with a component node at the bound itself.
C2_Witness ==
    /\ pc = "valid"
    /\ IsComponent(component)
    /\ \E p \in ComponentNodes(component, <<>>) : Len(p) = MAX_CHAT_DEPTH
    /\ \A p \in ComponentNodes(component, <<>>) : Len(p) <= MAX_CHAT_DEPTH

(* C3 as stated: when the depth bound is exceeded, the path of the raised    *)
(* ComponentError has length exactly 9                                       *)
C3_DepthPathIsNine ==
    (Validated /\ error.message = DepthMessage) => Len(error.path) = MAX_CHAT_DEPTH + 1

(* C3 as amended: when the depth bound is exceeded, the path of the raised   *)
(* ComponentError has length 9, 10 or 11 (the last nesting step adds two     *)
(* segments, or three for an entry of a tooltip array, to a path of at most  *)
(* 8)                                                                        *)
C3_DepthPathNineToEleven ==
    (Validated /\ error.message = DepthMessage)
    => /\ Len(error.path) >= MAX_CHAT_DEPTH + 1
       /\ Len(error.path) <= MAX_CHAT_DEPTH + 3
       /\ error.path \in CheckedValues(component, <<>>)

C3_Witness ==
    /\ pc = "rejected"
    /\ error.message = DepthMessage
    /\ Len(error.path) = MAX_CHAT_DEPTH + 3

(* C4 as stated: a value nested at a path longer than 8 (an entry of extra,  *)
(* with or contents, a hoverEvent, its contents) makes validation fail       *)
C4_DeepValueRejected ==
    (Validated /\ \E p \in NestedValues(component, <<>>) : Len(p) > MAX_CHAT_DEPTH)
    => ~error.ok

(* C4 as amended: a value that assertIsComponent is applied to (a non-string *)
(* entry of extra, with or a tooltip array, a tooltip contents that is       *)
(* neither string nor array) at a path longer than 8 makes validation fail;  *)
(* the error raised at that value is the depth error, whatever the value is, *)
(* and nothing below it is checked                                           *)
C4_CheckedDeepValueRejected ==
    Validated =>
      \A p \in CheckedValues(component, <<>>) :
         Len(p) > MAX_CHAT_DEPTH =>
           /\ ~error.ok
           /\ IsPrefix(p, error.path) => (error.path = p /\ error.message = DepthMessage)

\* A non-object, at a path longer than 8, rejected for its depth and not for
\* its type.
C4_Witness ==
    /\ pc = "rejected"
    /\ error.message = DepthMessage
    /\ \E p \in CheckedValues(component, <<>>) :
          /\ Len(p) > MAX_CHAT_DEPTH
          /\ error.path = p
          /\ \E chain \in Chains(MaxChain) : component = Nest(chain, Null)

(* C8: the path of every ComponentError designates, from the root of the     *)
(* input, the offending value, or the owner of the missing field             *)
C8_ErrorPathDesignates ==
    (pc = "rejected")
    => \/ Designates(component, error.path)
       \/ /\ error.path # <<>>
          /\ Designates(component, SubSeq(error.path, 1, Len(error.path) - 1))
          /\ error.message \in
               { "HoverEvent.contents.id is not present",
                 "HoverEvent.contents.type is not present" }

----------------------------------------------------------------------------
(* Rendering claims *)

Rendered == pc = "rendered"

\* A well-formed output node: a text leaf, a link fragment, or a styled
\* container whose title is a string or unset and whose children are
\* well-formed output nodes.
RECURSIVE IsOutputNode(_)
IsOutputNode(node) ==
    \/ node.k \in {"text", "a"}
    \/ /\ node.k = "span"
       /\ node.title.k \in {"undefined", "str"}
       /\ \A i \in 1..Len(node.children) : IsOutputNode(node.children[i])

(* C1: for every tree assertIsComponent accepts, formatComponent returns,    *)
(* without raising, a styled container whose children are text leaves, link  *)
(* fragments or styled containers                                            *)
C1_RendersStyledContainer ==
    Rendered => (rendered.k = "span" /\ IsOutputNode(rendered))

(* C5: the text content of the node formatComponent returns for a validated  *)
(* component is the first min(L, 4096) characters of the assembled text (own *)
(* content, then the extra entries in order, recursively), L its length      *)
C5_TextIsPrefixOfAssembled ==
    Rendered =>
      /\ rendered.k \in {"text", "a", "span"}
      /\ ~formatComponentPlainText(component).throws
      /\ TextContent(rendered)
           = Slice(formatComponentPlainText(component).v, 0, MAX_CHAT_LENGTH)

\* The classes formatComponent adds for the style flags.
FlagClassNames ==
    { <<"m","c","-","b","o","l","d">>, <<"m","c","-","i","t","a","l","i","c">>, <<"m","c","-","u","n","d","e","r","l","i","n","e","d">>, <<"m","c","-","s","t","r","i","k","e","t","h","r","o","u","g","h">>, <<"m","c","-","o","b","f","u","s","c","a","t","e","d">> }

\* The classes of the 17 palette names: underscores to hyphens, prefix mc-.
PaletteClasses == { ColorClass(VALID_COLORS[i]) : i \in 1..Len(VALID_COLORS) }

\* The classes of a container that are not style flag classes.
ColorClassesOf(node) ==
    { node.classList[i] : i \in 1..Len(node.classList) } \ FlagClassNames

(* C6: for a color string, the container carries (a) one class of a palette  *)
(* name and no literal color, (b) a literal '#' and 6 hex digits and no      *)
(* color class, or (c) no color; (c) exactly when isValidColor rejects it    *)
C6_ColorIsPaletteClassOrHex ==
    (Rendered /\ TypeOf(Get(component, "color")) = "string") =>
      /\ rendered.k = "span"
      /\ \/ /\ Cardinality(ColorClassesOf(rendered)) = 1
            /\ ColorClassesOf(rendered) \subseteq PaletteClasses
            /\ rendered.color = <<>>
         \/ /\ ColorClassesOf(rendered) = {}
            /\ IsHexColor(rendered.color)
         \/ /\ ColorClassesOf(rendered) = {}
            /\ rendered.color = <<>>
      /\ (ColorClassesOf(rendered) = {} /\ rendered.color = <<>>)
           <=> ~isValidColor(Get(component, "color").s)

(* C7: formatComponent never raises, for any input value, validated or not;  *)
(* a text leaf returned for the node is the first 4096 characters of the     *)
(* node's own text field, or the empty string when it has none               *)
C7_NeverRaises ==
    (pc \in {"rendered", "rendered_raw"}) =>
      /\ rendered.k # "throw"
      /\ (rendered.k = "text" /\ TypeOf(Get(component, "text")) = "string")
           => rendered.s = Slice(Get(component, "text").s, 0, MAX_CHAT_LENGTH)
      /\ (rendered.k = "text" /\ ~In("text", component)) => rendered.s = <<>>

\* The value with translate and with removed from every object in it that
\* has a string text.
RECURSIVE TextOnly(_)
TextOnly(v) ==
    CASE v.k = "arr" -> Arr([i \in 1..Len(v.a) |-> TextOnly(v.a[i])])
      [] v.k = "obj" ->
           LET kept == IF TypeOf(Get(v, "text")) = "string"
                       THEN DOMAIN v.o \ {"translate", "with"}
                       ELSE DOMAIN v.o
           IN  Obj([f \in kept |-> TextOnly(v.o[f])])
      [] OTHER -> v

(* C9: a component with a text field present (any string, the empty string   *)
(* included) renders as it would without its translate and with, in the node *)
(* and in the tooltip text alike                                             *)
C9_TextPresentIgnoresTranslate ==
    Rendered => rendered = formatComponent(TextOnly(component))

\* The text of a supplied argument: a string verbatim, a component by its
\* rendering.
ArgumentText(arg) ==
    IF TypeOf(arg) = "string" THEN arg.s ELSE TextContent(formatComponent(arg))

\* The template from lastIndex on with each token %N$s, 1 <= N <= number of
\* arguments, replaced by the text of the N-th argument, every other token
\* kept as it is written.
RECURSIVE NumberedText(_, _, _)
NumberedText(template, args, lastIndex) ==
    LET match == ExecNumbered(template, lastIndex)
    IN  IF match.index = -1 THEN SliceFrom(template, lastIndex)
        ELSE Slice(template, lastIndex, match.index)
               \o (IF ParseInt(match.digits) \in 1..Len(args.a)
                   THEN ArgumentText(args.a[ParseInt(match.digits)])
                   ELSE Slice(template, match.index, match.lastIndex))
               \o NumberedText(template, args, match.lastIndex)

\* The component's content is a translation whose template has %N$s tokens,
\* and nothing else.
NumberedOnly(c) ==
    /\ ~In("text", c) /\ ~In("extra", c)
    /\ TypeOf(Get(c, "translate")) = "string"
    /\ Truthy(Get(c, "translate"))
    /\ Truthy(Lookup(Get(c, "translate").s))
    /\ ExecNumbered(Lookup(Get(c, "translate").s).s, 0).index # -1

(* C10: the text numbered substitution produces is the template with each    *)
(* token %N$s, 1 <= N <= number of arguments, replaced by the text of the    *)
(* N-th argument, out-of-range tokens and the text between tokens kept       *)
C10_NumberedSubstitutionText ==
    (Rendered /\ NumberedOnly(component)) =>
      TextContent(rendered)
        = Slice(NumberedText(Lookup(Get(component, "translate").s).s,
                             Coalesce(Get(component, "with"), Arr(<<>>)), 0),
                0, MAX_CHAT_LENGTH)

\* The template from lastIndex on with the k-th %s token (k counted from 0
\* here) replaced by the text of the argument at index k when there is one,
\* kept as %s once the arguments are exhausted.
RECURSIVE SequentialText(_, _, _, _)
SequentialText(template, args, lastIndex, k) ==
    LET match == ExecSimple(template, lastIndex)
    IN  IF match.index = -1 THEN SliceFrom(template, lastIndex)
        ELSE Slice(template, lastIndex, match.index)
               \o (IF k < Len(args.a) THEN ArgumentText(args.a[k + 1]) ELSE <<"%","s">>)
               \o SequentialText(template, args, match.lastIndex, k + 1)

\* The component's content is a translation whose template has no %N$s
\* token, and nothing else.
SequentialOnly(c) ==
    /\ ~In("text", c) /\ ~In("extra", c)
    /\ TypeOf(Get(c, "translate")) = "string"
    /\ Truthy(Get(c, "translate"))
    /\ Truthy(Lookup(Get(c, "translate").s))
    /\ ExecNumbered(Lookup(Get(c, "translate").s).s, 0).index = -1

(* C11: for a key whose template has no %N$s token, the k-th %s is replaced  *)
(* by the k-th argument when at least k are supplied and kept as %s once     *)
(* they are exhausted, whatever other characters the template contains       *)
C11_SequentialSubstitutionText ==
    (Rendered /\ SequentialOnly(component)) =>
      TextContent(rendered)
        = Slice(SequentialText(Lookup(Get(component, "translate").s).s,
                               Coalesce(Get(component, "with"), Arr(<<>>)), 0, 0),
                0, MAX_CHAT_LENGTH)

\* The component is a non-empty text of at most MAX_CHAT_LENGTH characters
\* with no extra: the children of its node are the fragments of
\* linkifyText(text).
Linkified(c) ==
    /\ TypeOf(Get(c, "text")) = "string"
    /\ Len(Get(c, "text").s) \in 1..MAX_CHAT_LENGTH
    /\ ~In("extra", c)

\* The 0-based index in the input at which fragment i begins.
OffsetOf(fragments, i) == Len(TextContentOfAll(SubSeq(fragments, 1, i - 1), 1))

\* A scheme and at least one character that is not whitespace begin at
\* 0-based index i of text.
BeginsUrl(text, i) ==
    \E scheme \in { <<"h","t","t","p",":","/","/">>, <<"h","t","t","p","s",":","/","/">> } :
       /\ i + Len(scheme) < Len(text)
       /\ SubSeq(text, i + 1, i + Len(scheme)) = scheme
       /\ ~IsWhiteSpace(text[i + Len(scheme) + 1])

\* fragments cover text in order, and the link fragments are the successive
\* leftmost maximal whitespace-free runs that begin with a scheme.
IsLinkification(text, fragments) ==
    /\ TextContentOfAll(fragments, 1) = text
    /\ \A i \in 1..Len(fragments) :
          LET f == fragments[i]
              from == OffsetOf(fragments, i)
              to == from + Len(f.s)
          IN  \/ /\ f.k = "text"
                 /\ f.s # <<>>
                 /\ i > 1 => fragments[i - 1].k # "text"
                 /\ \A j \in from..(to - 1) : ~BeginsUrl(text, j)
              \/ /\ f.k = "a"
                 /\ f.href = f.s
                 /\ BeginsUrl(text, from)
                 /\ \A j \in 1..Len(f.s) : ~IsWhiteSpace(f.s[j])
                 /\ to < Len(text) => IsWhiteSpace(text[to + 1])

(* C12: the fragments of linkifyText concatenate to the input; the link      *)
(* fragments are the successive leftmost maximal whitespace-free runs that   *)
(* begin with http:// or https:// and one more character, each with          *)
(* destination equal to its text; no text fragment is empty and no two are   *)
(* adjacent                                                                  *)
C12_LinkifyCoversInput ==
    (Rendered /\ Linkified(component)) =>
      /\ rendered.k = "span"
      /\ IsLinkification(Get(component, "text").s, rendered.children)

\* A text with two links, text before, between and after them.
C12_Witness ==
    /\ Rendered /\ Linkified(component)
    /\ rendered.k = "span"
    /\ Len(rendered.children) = 5
    /\ rendered.children[2].k = "a" /\ rendered.children[4].k = "a"

\* The component carries a show_item or show_entity hover event.
HasItemOrEntityEvent(c) ==
    /\ TypeOf(Get(c, "hoverEvent")) = "object"
    /\ Get(Get(c, "hoverEvent"), "action") \in { Str(<<"s","h","o","w","_","i","t","e","m">>), Str(<<"s","h","o","w","_","e","n","t","i","t","y">>) }

\* The tooltips C13 allows for an accepted show_item or show_entity event:
\* the empty string when the legacy value is carried; else, from the checked
\* contents, '<count>x <id>' or id for an item, name or 'Unnamed Entity' for
\* an entity.
AllowedTooltips(h) ==
    LET contents == Get(h, "contents")
    IN  IF In("value", h) THEN { Str(<<>>) }
        ELSE IF Get(h, "action") = Str(<<"s","h","o","w","_","i","t","e","m">>)
        THEN { Get(contents, "id") }
               \cup (IF In("count", contents)
                     THEN { Str(NumberToString(Get(contents, "count").n) \o <<"x"," ">>
                                \o Get(contents, "id").s) }
                     ELSE {})
        ELSE { Str(<<"U","n","n","a","m","e","d"," ","E","n","t","i","t","y">>) }
               \cup (IF In("name", contents) THEN { Get(contents, "name") } ELSE {})

(* C13: for an accepted show_item or show_entity event the tooltip is a      *)
(* string computed from checked fields only: empty when the legacy value is  *)
(* carried (contents present or not), else '<count>x <id>' or id, or name or *)
(* 'Unnamed Entity'                                                          *)
C13_TooltipFromCheckedFields ==
    (Rendered /\ HasItemOrEntityEvent(component)) =>
      /\ rendered.k = "span"
      /\ rendered.title \in AllowedTooltips(Get(component, "hoverEvent"))

\* The component without the fields that give it content: what is left are
\* its color, style flags and hoverEvent.
StyleOnly(c) ==
    Obj([f \in DOMAIN c.o \ {"text", "translate", "with", "extra"} |-> c.o[f]])

\* The node appended for entry i of extra.
ExtraNode(entry) ==
    IF TypeOf(entry) = "string" THEN TextNode(entry.s) ELSE formatComponent(entry)

\* The children assembled for a component before the length check: the
\* fragments of its own content, then one node for each entry of extra.
AssembledChildren(c) ==
    OwnContent(c).v
      \o (IF In("extra", c)
          THEN [i \in 1..Len(Get(c, "extra").a) |-> ExtraNode(Get(c, "extra").a[i])]
          ELSE <<>>)

(* C14: a node whose assembled text exceeds 4096 characters keeps its style  *)
(* classes, color and tooltip, and its children are replaced by one text     *)
(* leaf; a node whose assembled text is at most 4096 characters keeps its    *)
(* children as assembled                                                     *)
C14_TruncationKeepsStyle ==
    (Rendered /\ rendered.k = "span") =>
      LET assembled == AssembledChildren(component)
          text == TextContentOfAll(assembled, 1)
          styled == formatComponent(StyleOnly(component))
      IN  /\ rendered.classList = styled.classList
          /\ rendered.color = styled.color
          /\ rendered.title = styled.title
          /\ rendered.children = IF Len(text) > MAX_CHAT_LENGTH
                                 THEN <<TextNode(SubSeq(text, 1, MAX_CHAT_LENGTH))>>
                                 ELSE assembled

\* A truncated node with a color class, a flag class and a tooltip, whose
\* assembled children were a text, a link and a styled container.
C14_Witness ==
    /\ Rendered /\ rendered.k = "span"
    /\ Len(TextContentOfAll(AssembledChildren(component), 1)) > MAX_CHAT_LENGTH
    /\ Len(AssembledChildren(component)) = 3
    /\ AssembledChildren(component)[2].k = "a"
    /\ AssembledChildren(component)[3].k = "span"
    /\ Len(rendered.classList) = 2
    /\ rendered.title = Str(<<"t","i","p">>)
    /\ Len(rendered.children) = 1

----------------------------------------------------------------------------
(* The obfuscation loop *)

(* C15: before cancellation exactly one frame callback is pending; once the  *)
(* cancel function has been called no frame is pending and the update        *)
(* callback never runs again; a second or later call of the cancel function  *)
(* changes nothing                                                           *)
C15_OneFrameUntilCancelled ==
    /\ [](pc = "animating" =>
            /\ cancelCalls = 0 => (frames = {animationFrameId} /\ animationFrameId # 0)
            /\ cancelCalls > 0 => frames = {})
    /\ [][(pc = "animating" /\ cancelCalls > 0) =>
            UNCHANGED <<animationFrameId, lastUpdate, frames, handle, timestamp,
                        elements, updateCalls>>]_vars

\* The loop ran, rewrote the elements, and was then cancelled twice.
C15_Witness ==
    /\ pc = "animating"
    /\ updateCalls >= 2
    /\ lastUpdate > 0
    /\ cancelCalls = 2
    /\ frames = {}

=============================================================================
